---- MODULE Spec2Model ----
(***************************************************************************)
(* SHA-1 message hasher of sha1test.c: sha1_hash (the padding and driving  *)
(* logic), self_check (the known-answer harness) and the compression       *)
(* function sha1_compress that the program links against.                  *)
(*                                                                         *)
(* Number representation.  TLC integers are 32-bit signed, so              *)
(*   - a uint32_t is a pair <<hi, lo>> of 16-bit halves, and               *)
(*   - a size_t (64 bits on the x86-64 build) is a tuple of four 16-bit    *)
(*     limbs, least significant first.                                     *)
(* All arithmetic on them is done modulo 2^32 and 2^64 as in C.            *)
(***************************************************************************)
EXTENDS Integers, Sequences, FiniteSets, TLC

\* ------------------------------------------------------------------ bounds
\* Longest message (in bytes) hashed from its first byte on.
MaxLen == 130
\* Longest message used when one buffer is hashed under two lengths.
MaxLenTwo == 129
\* Longest message of the two interleaved invocations.
MaxLenPar == 65
\* Longest short message whose padding is followed from the loop exit on.
MaxLenPad == 127
\* Number of distinct indeterminate contents tried for an output array.
NGarbage == 2

\* ------------------------------------------------------- program constants
BLOCK_SIZE == 64
LENGTH_SIZE == 8

H16 == 2 ^ 16
Pow2(n) == 2 ^ n

\* --------------------------------------------------------- uint32_t values
\* Operators that use an argument more than once first bind its value (the
\* singleton sets below), so that no argument is evaluated twice.
RECURSIVE And16(_, _)
And16(a, b) == IF a = 0 \/ b = 0 THEN 0
               ELSE (a % 2) * (b % 2)
                    + 2 * (CHOOSE r \in {And16(x, y) : x \in {a \div 2}, y \in {b \div 2}} : TRUE)
RECURSIVE Xor16(_, _)
Xor16(a, b) == IF a = 0 THEN b ELSE IF b = 0 THEN a
               ELSE ((a + b) % 2)
                    + 2 * (CHOOSE r \in {Xor16(x, y) : x \in {a \div 2}, y \in {b \div 2}} : TRUE)
Not16(a) == (H16 - 1) - a

XorW(x, y) == CHOOSE r \in {<<Xor16(u[1], v[1]), Xor16(u[2], v[2])>> : u \in {x}, v \in {y}} : TRUE
AndW(x, y) == CHOOSE r \in {<<And16(u[1], v[1]), And16(u[2], v[2])>> : u \in {x}, v \in {y}} : TRUE
\* x | y = x + y - (x & y), half by half
OrV(u, v) == CHOOSE r \in {<<u[1] + v[1] - c[1], u[2] + v[2] - c[2]>> : c \in {AndW(u, v)}} : TRUE
OrW(x, y) == CHOOSE r \in {OrV(u, v) : u \in {x}, v \in {y}} : TRUE
NotW(x) == CHOOSE r \in {<<Not16(u[1]), Not16(u[2])>> : u \in {x}} : TRUE
\* x + y modulo 2^32
AddW(x, y) ==
  CHOOSE r \in {<<(u[1] + v[1] + ((u[2] + v[2]) \div H16)) % H16, (u[2] + v[2]) % H16>> :
                  u \in {x}, v \in {y}} : TRUE
\* (x << n) | (x >> (32 - n)) for 0 < n < 16
RotlSmall(x, n) ==
  CHOOSE r \in {<<(u[1] % Pow2(16 - n)) * Pow2(n) + (u[2] \div Pow2(16 - n)),
                  (u[2] % Pow2(16 - n)) * Pow2(n) + (u[1] \div Pow2(16 - n))>> : u \in {x}} : TRUE
\* (x << n) | (x >> (32 - n)) for 0 < n < 32
Rotl(x, n) == IF n < 16 THEN RotlSmall(x, n)
              ELSE CHOOSE r \in {IF n = 16 THEN <<u[2], u[1]>>
                                 ELSE RotlSmall(<<u[2], u[1]>>, n - 16) : u \in {x}} : TRUE

\* ------------------------------------------------------------ sha1_compress
\* Big-endian 32-bit word j (0-based) of a 64-byte block (a 1-based tuple).
WordAt(blk, j) ==
  <<blk[4 * j + 1] * 256 + blk[4 * j + 2], blk[4 * j + 3] * 256 + blk[4 * j + 4]>>

\* w[i] = rotl(w[i-3] ^ w[i-8] ^ w[i-14] ^ w[i-16], 1), appended to w[0..i-1]
NextW(w) ==
  CHOOSE r \in {Append(u, Rotl(XorW(XorW(u[Len(u) - 2], u[Len(u) - 7]),
                                    XorW(u[Len(u) - 13], u[Len(u) - 15])), 1)) : u \in {w}} : TRUE
\* The recursion is done in three stretches to bound its depth.
RECURSIVE Expand(_, _)
Expand(w, n) == IF Len(w) = n THEN w
                ELSE CHOOSE r \in {Expand(t, n) : t \in {NextW(w)}} : TRUE
Schedule(blk) ==
  CHOOSE r \in {Expand(t2, 80) : t2 \in {Expand(t1, 48) : t1 \in
                 {Expand([j \in 1..16 |-> WordAt(u, j - 1)], 32) : u \in {blk}}}} : TRUE

F(r, b, c, d) ==
  IF r < 20 THEN OrW(AndW(b, c), AndW(NotW(b), d))
  ELSE IF r < 40 THEN XorW(XorW(b, c), d)
  ELSE IF r < 60 THEN OrW(OrW(AndW(b, c), AndW(b, d)), AndW(c, d))
  ELSE XorW(XorW(b, c), d)
K(r) == IF r < 20 THEN <<\H5A82, \H7999>>
        ELSE IF r < 40 THEN <<\H6ED9, \HEBA1>>
        ELSE IF r < 60 THEN <<\H8F1B, \HBCDC>>
        ELSE <<\HCA62, \HC1D6>>

\* One round: (a,b,c,d,e) := (rotl(a,5) + f + e + k + w[r], a, rotl(b,30), c, d)
Round(r, v, w) ==
  <<AddW(AddW(AddW(AddW(Rotl(v[1], 5), F(r, v[2], v[3], v[4])), v[5]), K(r)), w[r + 1]),
    v[1], Rotl(v[2], 30), v[3], v[4]>>
RECURSIVE Rounds(_, _, _, _)
Rounds(r, n, v, w) ==
  IF r = n THEN v
  ELSE CHOOSE res \in {Rounds(r + 1, n, t, w) : t \in {Round(r, v, w)}} : TRUE
Rounds80(v, w) ==
  CHOOSE res \in {Rounds(60, 80, t3, w) : t3 \in {Rounds(40, 60, t2, w) : t2 \in
                   {Rounds(20, 40, t1, w) : t1 \in {Rounds(0, 20, v, w)}}}} : TRUE

\* state := state + (a,b,c,d,e) after the 80 rounds on the block
Feed(s, w) == CHOOSE res \in {[j \in 1..5 |-> AddW(s[j], t[j])] : t \in {Rounds80(s, w)}} : TRUE
sha1_compress(state, blk) ==
  CHOOSE res \in {Feed(s, w) : s \in {state}, w \in {Schedule(blk)}} : TRUE

\* ----------------------------------------------------------- size_t values
SzNat(n) == <<n % H16, n \div H16, 0, 0>>
SzVal(s) == s[1] + s[2] * H16
SzSmall(s) == s[3] = 0 /\ s[4] = 0 /\ s[2] < Pow2(14)
\* a + b modulo 2^64
SzAdd(a, b) ==
  LET s1 == a[1] + b[1]
      s2 == a[2] + b[2] + (s1 \div H16)
      s3 == a[3] + b[3] + (s2 \div H16)
      s4 == a[4] + b[4] + (s3 \div H16)
  IN <<s1 % H16, s2 % H16, s3 % H16, s4 % H16>>
\* a - b modulo 2^64 (unsigned wrap-around)
SzSub(a, b) ==
  LET d1 == a[1] - b[1]
      d2 == a[2] - b[2] + (d1 \div H16)
      d3 == a[3] - b[3] + (d2 \div H16)
      d4 == a[4] - b[4] + (d3 \div H16)
  IN <<d1 % H16, d2 % H16, d3 % H16, d4 % H16>>
\* a >= b
SzGe(a, b) ==
  IF a[4] # b[4] THEN a[4] > b[4]
  ELSE IF a[3] # b[3] THEN a[3] > b[3]
  ELSE IF a[2] # b[2] THEN a[2] > b[2]
  ELSE a[1] >= b[1]
\* a >> k for 0 < k < 16
SzShr(a, k) ==
  LET q == Pow2(k)
      u == Pow2(16 - k)
  IN <<(a[1] \div q) + (a[2] % q) * u, (a[2] \div q) + (a[3] % q) * u,
       (a[3] \div q) + (a[4] % q) * u, a[4] \div q>>
\* a & (m - 1) for a power of two m <= 2^16
SzLow(a, m) == a[1] % m

\* ------------------------------------------------------------ the messages
\* testCases[]: expected digest and NUL-terminated message string.
testCases == <<
  [answer  |-> <<<<\HDA39, \HA3EE>>, <<\H5E6B, \H4B0D>>, <<\H3255, \HBFEF>>,
                 <<\H9560, \H1890>>, <<\HAFD8, \H0709>>>>,
   message |-> <<0>>],
  [answer  |-> <<<<\H86F7, \HE437>>, <<\HFAA5, \HA7FC>>, <<\HE15D, \H1DDC>>,
                 <<\HB9EA, \HEAEA>>, <<\H3776, \H67B8>>>>,
   message |-> <<97, 0>>],
  [answer  |-> <<<<\HA999, \H3E36>>, <<\H4706, \H816A>>, <<\HBA3E, \H2571>>,
                 <<\H7850, \HC26C>>, <<\H9CD0, \HD89D>>>>,
   message |-> <<97, 98, 99, 0>>],
  [answer  |-> <<<<\HC122, \H52CE>>, <<\HDA8B, \HE899>>, <<\H4D5F, \HA029>>,
                 <<\H0A47, \H231C>>, <<\H1D16, \HAAE3>>>>,
   message |-> <<109, 101, 115, 115, 97, 103, 101, 32, 100, 105, 103, 101, 115, 116, 0>>],
  [answer  |-> <<<<\H32D1, \H0C7B>>, <<\H8CF9, \H6570>>, <<\HCA04, \HCE37>>,
                 <<\HF2A1, \H9D84>>, <<\H240D, \H3A89>>>>,
   message |-> [j \in 1..27 |-> IF j = 27 THEN 0 ELSE 96 + j]],
  [answer  |-> <<<<\H8498, \H3E44>>, <<\H1C3B, \HD26E>>, <<\HBAAE, \H4AA1>>,
                 <<\HF951, \H29E5>>, <<\HE546, \H70F1>>>>,
   message |-> [j \in 1..57 |-> IF j = 57 THEN 0
                                 ELSE 97 + ((j - 1) \div 4) + ((j - 1) % 4)]] >>
NumTestCases == Len(testCases)

\* strlen: the number of bytes before the first NUL.
strlen(str) == CHOOSE n \in 0..(Len(str) - 1) :
                 str[n + 1] = 0 /\ \A j \in 1..n : str[j] # 0

\* A message is named by a number: 1..NumTestCases are the strings of
\* testCases, larger numbers are caller-supplied buffers whose byte at index
\* idx is a fixed function of idx and of the number.
CallerBufs == {NumTestCases + 1, NumTestCases + 2}
CallerByte(m, idx) == (idx[1] * 5 + idx[2] * 3 + m * 17) % 256
\* message[idx]; a byte outside a test string reads as 0 (never done by the
\* program, see fault).
MsgByte(m, idx) ==
  IF m <= NumTestCases
  THEN IF SzSmall(idx) /\ SzVal(idx) < Len(testCases[m].message)
       THEN testCases[m].message[SzVal(idx) + 1] ELSE 0
  ELSE CallerByte(m, idx)
\* &message[o] read as a 64-byte block
Chunk(m, o) == [j \in 1..BLOCK_SIZE |-> MsgByte(m, SzAdd(o, SzNat(j - 1)))]

\* ----------------------------------------------------------------- state
Procs == {1, 2}

VARIABLES
  pc,       \* per invocation: position in sha1_hash ("off" = not called)
  message,  \* per invocation: the message argument
  len,      \* per invocation: the len argument (shifted while it is encoded)
  len0,     \* per invocation: the value of len at the call (history)
  hidx,     \* per invocation: index of the next hash word to initialise
  off,      \* per invocation: local off
  rem,      \* per invocation: local rem
  i,        \* per invocation: loop variable of the length loop
  hash,     \* the output arrays, by array
  block,    \* the padding buffers, by buffer
  calls,    \* per invocation: the blocks passed to sha1_compress (history)
  fault,    \* per invocation: an access outside message or block was made
  tcI,      \* self_check: loop index
  matched,  \* self_check: the test cases whose digest matched (history)
  ret       \* self_check: return value, "none" while running

vars == <<pc, message, len, len0, hidx, off, rem, i, hash, block, calls, fault,
          tcI, matched, ret>>
scvars == <<tcI, matched, ret>>

\* The output array of invocation p: the caller passes distinct arrays.
HashOf(p) == p
\* Mutation: block declared static, one buffer for all invocations.
BlockOfStatic(p) == 1
\* The padding buffer of invocation p: block has automatic storage.
BlockOf(p) == p

\* Initial chaining value (lines 97-101).
H0 == << <<\H6745, \H2301>>, <<\HEFCD, \HAB89>>, <<\H98BA, \HDCFE>>,
         <<\H1032, \H5476>>, <<\HC3D2, \HE1F0>> >>
\* Mutation: the assignment to hash[4] left out.
HashInitWordSkip(old, j) == IF j = 5 THEN old ELSE H0[j]
\* hash[j-1] after its initialising assignment
HashInitWord(old, j) == H0[j]

\* Indeterminate contents of an output array before the call.
GarbageHash(n) == [j \in 1..5 |-> <<(n * 4660 + j) % H16, (n * 22136 + 7 * j) % H16>>]
Garbage == {GarbageHash(n) : n \in 1..NGarbage}
\* Contents of the stack slot of block before its initialisation.
GarbageBlock == [j \in 1..BLOCK_SIZE |-> 204]
ZeroBlock == [j \in 1..BLOCK_SIZE |-> 0]

\* 0-based store into a 64-byte buffer; a store outside it is dropped here
\* and recorded in fault by the action.
InBlock(s) == SzSmall(s) /\ SzVal(s) < BLOCK_SIZE
Store(blk, s, byte) == IF InBlock(s) THEN [blk EXCEPT ![SzVal(s) + 1] = byte] ELSE blk

\* Mutation: the loop test written with > for >=.
LoopCondStrict(l, o) == ~SzGe(SzNat(BLOCK_SIZE), SzSub(l, o))
\* len - off >= BLOCK_SIZE (line 107)
LoopCond(l, o) == SzGe(SzSub(l, o), SzNat(BLOCK_SIZE))
\* off += BLOCK_SIZE (line 107)
NextOff(o) == SzAdd(o, SzNat(BLOCK_SIZE))
\* Mutation: block declared without its = {0} initialiser.
TailCopyNoZero(m, o, r) ==
  [j \in 1..BLOCK_SIZE |->
     IF SzGe(r, SzNat(j)) THEN MsgByte(m, SzAdd(o, SzNat(j - 1))) ELSE GarbageBlock[j]]
\* memcpy(block, &message[off], rem) into the zeroed block (lines 110-112)
TailCopy(m, o, r) ==
  [j \in 1..BLOCK_SIZE |->
     IF SzGe(r, SzNat(j)) THEN MsgByte(m, SzAdd(o, SzNat(j - 1))) ELSE 0]
\* the padding byte stored at block[rem] (line 114)
PadByte == 128
\* Mutation: the spill test written with <= for <.
NeedSpillLe(r) == ~SzGe(SzSub(SzNat(BLOCK_SIZE), r), SzNat(LENGTH_SIZE + 1))
\* BLOCK_SIZE - rem < LENGTH_SIZE (line 116)
NeedSpill(r) == ~SzGe(SzSub(SzNat(BLOCK_SIZE), r), SzNat(LENGTH_SIZE))
\* Mutation: the low length byte taken without the shift to bits.
LenLowByteNoShift(l) == SzLow(l, 256)
\* (uint8_t)((len & 0x1FU) << 3) (line 121)
LenLowByte(l) == (SzLow(l, 32) * 8) % 256
\* Mutation: the first shift written as a whole-byte shift.
LenShiftLow8(l) == SzShr(l, 8)
\* len >>= 5 (line 122)
LenShiftLow(l) == SzShr(l, 5)
\* (uint8_t)(len & 0xFFU) (line 124)
LenNextByte(l) == SzLow(l, 256)
\* len >>= 8 (line 123)
LenShiftByte(l) == SzShr(l, 8)

\* ------------------------------------------------------- sha1_hash, by step
\* hash[hidx] = constant (lines 97-101); after the last one, off = 0 (line 107)
SetH(p) ==
  /\ pc[p] = "init"
  /\ hash' = [hash EXCEPT ![HashOf(p)][hidx[p] + 1] =
                 HashInitWord(hash[HashOf(p)][hidx[p] + 1], hidx[p] + 1)]
  /\ IF hidx[p] < 4
     THEN /\ hidx' = [hidx EXCEPT ![p] = hidx[p] + 1]
          /\ UNCHANGED <<pc, off>>
     ELSE /\ pc' = [pc EXCEPT ![p] = "loop"]
          /\ off' = [off EXCEPT ![p] = SzNat(0)]
          /\ UNCHANGED hidx
  /\ UNCHANGED <<message, len, len0, rem, i, block, calls, fault, scvars>>

\* One iteration of the block loop (lines 107-108).
Loop(p) ==
  /\ pc[p] = "loop"
  /\ LoopCond(len[p], off[p])
  /\ hash' = [hash EXCEPT ![HashOf(p)] =
                 sha1_compress(hash[HashOf(p)], Chunk(message[p], off[p]))]
  /\ calls' = [calls EXCEPT ![p] =
                 Append(calls[p], [src |-> "msg", at |-> off[p],
                                   blk |-> Chunk(message[p], off[p])])]
  /\ fault' = [fault EXCEPT ![p] =
                 fault[p] \/ ~SzGe(len0[p], SzAdd(off[p], SzNat(BLOCK_SIZE)))
                          \/ ~SzGe(SzAdd(off[p], SzNat(BLOCK_SIZE)), off[p])]
  /\ off' = [off EXCEPT ![p] = NextOff(off[p])]
  /\ UNCHANGED <<pc, message, len, len0, hidx, rem, i, block, scvars>>

\* Loop exit, then block = {0}, rem = len - off, memcpy (lines 107, 110-112).
Copy(p) ==
  /\ pc[p] = "loop"
  /\ ~LoopCond(len[p], off[p])
  /\ rem' = [rem EXCEPT ![p] = SzSub(len[p], off[p])]
  /\ block' = [block EXCEPT ![BlockOf(p)] =
                 TailCopy(message[p], off[p], SzSub(len[p], off[p]))]
  /\ fault' = [fault EXCEPT ![p] =
                 fault[p] \/ ~SzGe(SzNat(BLOCK_SIZE), SzSub(len[p], off[p]))
                          \/ ~SzGe(len0[p], off[p])
                          \/ ~SzGe(SzSub(len0[p], off[p]), SzSub(len[p], off[p]))]
  /\ pc' = [pc EXCEPT ![p] = "mark"]
  /\ UNCHANGED <<message, len, len0, hidx, off, i, hash, calls, scvars>>

\* block[rem] = 0x80; rem++ (lines 114-115)
Mark(p) ==
  /\ pc[p] = "mark"
  /\ block' = [block EXCEPT ![BlockOf(p)] = Store(block[BlockOf(p)], rem[p], PadByte)]
  /\ fault' = [fault EXCEPT ![p] = fault[p] \/ ~InBlock(rem[p])]
  /\ rem' = [rem EXCEPT ![p] = SzAdd(rem[p], SzNat(1))]
  /\ pc' = [pc EXCEPT ![p] = "test"]
  /\ UNCHANGED <<message, len, len0, hidx, off, i, hash, calls, scvars>>

\* if (BLOCK_SIZE - rem < LENGTH_SIZE) (line 116)
Test(p) ==
  /\ pc[p] = "test"
  /\ pc' = [pc EXCEPT ![p] = IF NeedSpill(rem[p]) THEN "spill" ELSE "len"]
  /\ UNCHANGED <<message, len, len0, hidx, off, rem, i, hash, block, calls, fault, scvars>>

\* sha1_compress(hash, block) of the overfull block (line 117)
Spill(p) ==
  /\ pc[p] = "spill"
  /\ hash' = [hash EXCEPT ![HashOf(p)] =
                 sha1_compress(hash[HashOf(p)], block[BlockOf(p)])]
  /\ calls' = [calls EXCEPT ![p] =
                 Append(calls[p], [src |-> "pad", at |-> off[p], blk |-> block[BlockOf(p)]])]
  /\ pc' = [pc EXCEPT ![p] = "clear"]
  /\ UNCHANGED <<message, len, len0, hidx, off, rem, i, block, fault, scvars>>

\* memset(block, 0, sizeof(block)) (line 118)
Clear(p) ==
  /\ pc[p] = "clear"
  /\ block' = [block EXCEPT ![BlockOf(p)] = ZeroBlock]
  /\ pc' = [pc EXCEPT ![p] = "len"]
  /\ UNCHANGED <<message, len, len0, hidx, off, rem, i, hash, calls, fault, scvars>>

\* block[BLOCK_SIZE - 1] = low byte of the bit length; len >>= 5; i = 1
\* (lines 121-123)
LenLow(p) ==
  /\ pc[p] = "len"
  /\ block' = [block EXCEPT ![BlockOf(p)] =
                 Store(block[BlockOf(p)], SzNat(BLOCK_SIZE - 1), LenLowByte(len[p]))]
  /\ len' = [len EXCEPT ![p] = LenShiftLow(len[p])]
  /\ i' = [i EXCEPT ![p] = 1]
  /\ pc' = [pc EXCEPT ![p] = "lenloop"]
  /\ UNCHANGED <<message, len0, hidx, off, rem, hash, calls, fault, scvars>>

\* One iteration of the length loop (lines 123-124).
LenByte(p) ==
  /\ pc[p] = "lenloop"
  /\ i[p] < LENGTH_SIZE
  /\ block' = [block EXCEPT ![BlockOf(p)] =
                 Store(block[BlockOf(p)], SzNat(BLOCK_SIZE - 1 - i[p]), LenNextByte(len[p]))]
  /\ fault' = [fault EXCEPT ![p] = fault[p] \/ BLOCK_SIZE - 1 - i[p] < 0]
  /\ i' = [i EXCEPT ![p] = i[p] + 1]
  /\ len' = [len EXCEPT ![p] = LenShiftByte(len[p])]
  /\ UNCHANGED <<pc, message, len0, hidx, off, rem, hash, calls, scvars>>

\* Exit of the length loop and the last sha1_compress (lines 123, 125).
Final(p) ==
  /\ pc[p] = "lenloop"
  /\ ~(i[p] < LENGTH_SIZE)
  /\ hash' = [hash EXCEPT ![HashOf(p)] =
                 sha1_compress(hash[HashOf(p)], block[BlockOf(p)])]
  /\ calls' = [calls EXCEPT ![p] =
                 Append(calls[p], [src |-> "pad", at |-> off[p], blk |-> block[BlockOf(p)]])]
  /\ pc' = [pc EXCEPT ![p] = "done"]
  /\ UNCHANGED <<message, len, len0, hidx, off, rem, i, block, fault, scvars>>

\* Lines 107-125: the block loop and the padding.
Blocks(p) ==
  \/ Loop(p)
  \/ Copy(p)
  \/ Mark(p)
  \/ Test(p)
  \/ Spill(p)
  \/ Clear(p)
  \/ LenLow(p)
  \/ LenByte(p)
  \/ Final(p)

\* Lines 96-125.
sha1_hash(p) ==
  \/ SetH(p)
  \/ Blocks(p)

\* The state of invocation p at the call sha1_hash(m, l, array holding g).
Call(p, m, l, g) ==
  /\ pc' = [pc EXCEPT ![p] = "init"]
  /\ message' = [message EXCEPT ![p] = m]
  /\ len' = [len EXCEPT ![p] = l]
  /\ len0' = [len0 EXCEPT ![p] = l]
  /\ hidx' = [hidx EXCEPT ![p] = 0]
  /\ hash' = [hash EXCEPT ![HashOf(p)] = g]
  /\ block' = [block EXCEPT ![BlockOf(p)] = GarbageBlock]
  /\ calls' = [calls EXCEPT ![p] = <<>>]
  /\ fault' = [fault EXCEPT ![p] = FALSE]
  /\ UNCHANGED <<off, rem, i>>

\* ------------------------------------------------------------- self_check
\* uint32_t hash[5]; sha1_hash(tc->message, strlen(tc->message), hash)
\* (lines 84-86); the local array is not initialised.
SelfCheckCall ==
  /\ ret = "none"
  /\ pc[1] = "off"
  /\ tcI < NumTestCases
  /\ \E g \in Garbage :
       Call(1, tcI + 1, SzNat(strlen(testCases[tcI + 1].message)), g)
  /\ UNCHANGED scvars

\* if (memcmp(hash, tc->answer, ...) != 0) return false; i++ (lines 83, 87-88)
SelfCheckCmp ==
  /\ ret = "none"
  /\ pc[1] = "done"
  /\ IF hash[HashOf(1)] # testCases[tcI + 1].answer
     THEN ret' = "false" /\ UNCHANGED <<tcI, matched>>
     ELSE /\ tcI' = tcI + 1
          /\ matched' = matched \cup {tcI + 1}
          /\ UNCHANGED ret
  /\ pc' = [pc EXCEPT ![1] = "off"]
  /\ UNCHANGED <<message, len, len0, hidx, off, rem, i, hash, block, calls, fault>>

\* return true (lines 83, 90)
SelfCheckRet ==
  /\ ret = "none"
  /\ pc[1] = "off"
  /\ ~(tcI < NumTestCases)
  /\ ret' = "true"
  /\ UNCHANGED <<pc, message, len, len0, hidx, off, rem, i, hash, block, calls, fault,
                 tcI, matched>>

self_check ==
  \/ SelfCheckCall
  \/ SelfCheckCmp
  \/ SelfCheckRet

\* --------------------------------------------------------- initial states
\* Nothing called yet.
Idle(r) ==
  /\ pc = [p \in Procs |-> "off"]
  /\ message = [p \in Procs |-> 0]
  /\ len = [p \in Procs |-> SzNat(0)]
  /\ len0 = [p \in Procs |-> SzNat(0)]
  /\ hidx = [p \in Procs |-> 0]
  /\ off = [p \in Procs |-> SzNat(0)]
  /\ rem = [p \in Procs |-> SzNat(0)]
  /\ i = [p \in Procs |-> 0]
  /\ hash = [p \in Procs |-> GarbageHash(p)]
  /\ block = [p \in Procs |-> GarbageBlock]
  /\ calls = [p \in Procs |-> <<>>]
  /\ fault = [p \in Procs |-> FALSE]
  /\ tcI = 0
  /\ matched = {}
  /\ ret = r

\* Invocations 1..n are at their call sha1_hash(ms[p], ls[p], array holding gs[p]).
Entered(n, ms, ls, gs) ==
  /\ pc = [p \in Procs |-> IF p <= n THEN "init" ELSE "off"]
  /\ message = [p \in Procs |-> IF p <= n THEN ms[p] ELSE 0]
  /\ len = [p \in Procs |-> IF p <= n THEN ls[p] ELSE SzNat(0)]
  /\ len0 = [p \in Procs |-> IF p <= n THEN ls[p] ELSE SzNat(0)]
  /\ hidx = [p \in Procs |-> 0]
  /\ off = [p \in Procs |-> SzNat(0)]
  /\ rem = [p \in Procs |-> SzNat(0)]
  /\ i = [p \in Procs |-> 0]
  /\ hash = [p \in Procs |-> IF p <= n THEN gs[p] ELSE GarbageHash(p)]
  /\ block = [p \in Procs |-> GarbageBlock]
  /\ calls = [p \in Procs |-> <<>>]
  /\ fault = [p \in Procs |-> FALSE]
  /\ tcI = 0
  /\ matched = {}
  /\ ret = "direct"

\* main calls self_check (line 45).
InitMain == Idle("none")
\* sha1_hash is called on a caller-supplied buffer.
InitCall ==
  \E m \in CallerBufs, l \in 0..MaxLen, g \in Garbage :
    Entered(1, <<m, m>>, <<SzNat(l), SzNat(l)>>, <<g, g>>)

Init == InitMain \/ InitCall
Next == self_check \/ sha1_hash(1)
Spec == Init /\ [][Next]_vars

\* The same program on the lengths around the block and padding boundaries,
\* run to completion: no step of it is postponed for ever.
LensFair == {n \in 0..MaxLen : n % BLOCK_SIZE \in {0, 1, 55, 56, 63}}
InitFair ==
  \/ InitMain
  \/ \E m \in CallerBufs, l \in LensFair, g \in Garbage :
       Entered(1, <<m, m>>, <<SzNat(l), SzNat(l)>>, <<g, g>>)
FairSpec == InitFair /\ [][Next]_vars /\ WF_vars(Next)

\* ------------------------------------- one buffer hashed under two lengths
LensTwo == {n \in 0..MaxLenTwo : n % BLOCK_SIZE \in {0, 1, 55, 56, 63}}
InitTwo ==
  \E m \in CallerBufs, l \in LensTwo, g \in Garbage :
    Entered(1, <<m, m>>, <<SzNat(l), SzNat(l)>>, <<g, g>>)
\* After the first call has returned the caller hashes the same buffer again,
\* under any length, into a second array.
Again ==
  /\ pc[1] = "done"
  /\ pc[2] = "off"
  /\ \E l \in LensTwo, g \in Garbage : Call(2, message[1], SzNat(l), g)
  /\ UNCHANGED scvars
NextTwo == sha1_hash(1) \/ Again \/ sha1_hash(2)
SpecTwo == InitTwo /\ [][NextTwo]_vars

\* ------------------------------------------- two interleaved invocations
LensPar == {n \in 0..MaxLenPar : n % BLOCK_SIZE \in {1, 56}}
InitPar ==
  \E l1 \in LensPar, l2 \in LensPar :
    Entered(2, <<NumTestCases + 1, NumTestCases + 2>>, <<SzNat(l1), SzNat(l2)>>,
            <<GarbageHash(1), GarbageHash(2)>>)
NextPar == \E p \in Procs : sha1_hash(p)
SpecPar == InitPar /\ [][NextPar]_vars

\* ------------------------------------------------ the padding, any length
\* Lengths up to 2^61 - 1 cannot be hashed from the first byte within the
\* model, so here sha1_hash is followed from the loop head with at most one
\* whole block left.  For the lengths below 128 that is the state right after
\* the initialisation; for the others hash stands for the chaining value
\* reached so far, which the padding does not read.
HighParts == { <<0, 16, 0, 0>>,                  \* 2^20
               <<65472, 65535, 0, 0>>,           \* 2^32 - 64
               <<0, 0, 1, 0>>,                   \* 2^32
               <<52672, 35243, 17767, 291>>,     \* 0x0123456789ABCDC0
               <<65472, 65535, 65535, 8191>> }   \* 2^61 - 64
LensPad == {SzNat(n) : n \in 0..MaxLenPad}
             \cup {SzAdd(h, SzNat(t)) : h \in HighParts, t \in {0, 1, 55, 56, 63}}
InitPad ==
  \E m \in CallerBufs, l \in LensPad :
    /\ pc = [p \in Procs |-> IF p = 1 THEN "loop" ELSE "off"]
    /\ message = [p \in Procs |-> IF p = 1 THEN m ELSE 0]
    /\ len = [p \in Procs |-> IF p = 1 THEN l ELSE SzNat(0)]
    /\ len0 = len
    /\ hidx = [p \in Procs |-> IF p = 1 THEN 4 ELSE 0]
    /\ off = [p \in Procs |-> IF p = 1 /\ SzGe(l, SzNat(2 * BLOCK_SIZE))
                              THEN SzSub(SzSub(l, SzNat(SzLow(l, BLOCK_SIZE))),
                                         SzNat(BLOCK_SIZE))
                              ELSE SzNat(0)]
    /\ rem = [p \in Procs |-> SzNat(0)]
    /\ i = [p \in Procs |-> 0]
    /\ hash = [p \in Procs |-> IF p = 1 THEN H0 ELSE GarbageHash(p)]
    /\ block = [p \in Procs |-> GarbageBlock]
    /\ calls = [p \in Procs |-> <<>>]
    /\ fault = [p \in Procs |-> FALSE]
    /\ tcI = 0
    /\ matched = {}
    /\ ret = "direct"
NextPad == Blocks(1)
SpecPad == InitPad /\ [][NextPad]_vars

\* ======================================================================
\* Properties
\* ======================================================================
\* The calls of invocation p that passed a chunk of the message, and those
\* that passed the padding buffer.
MsgCalls(p) == SelectSeq(calls[p], LAMBDA c : c.src = "msg")
PadCalls(p) == SelectSeq(calls[p], LAMBDA c : c.src = "pad")
\* Bytes 64k .. 64k+63 of message m, indexed from the start of the message.
WholeBlock(m, k) == [j \in 1..BLOCK_SIZE |-> MsgByte(m, SzNat(BLOCK_SIZE * k + (j - 1)))]

\* C1: self_check's calls sha1_hash(message, strlen(message)) return the
\* listed digest for each of the six known-answer messages, in word order
\* A,B,C,D,E, and self_check returns true exactly when all six matched.
C1_KnownAnswers ==
  /\ (ret = "none" /\ pc[1] = "done") =>
        /\ len0[1] = SzNat(Len(testCases[tcI + 1].message) - 1)
        /\ hash[HashOf(1)] = testCases[tcI + 1].answer
  /\ ret # "false"
  /\ ret = "true" => matched = 1..6
  /\ (ret = "none" /\ matched = 1..6 /\ pc[1] = "off") => ENABLED SelfCheckRet
W_C1 == ret = "true" /\ matched = 1..6 /\ hash[HashOf(1)] = testCases[6].answer

\* C2: once the whole blocks are consumed, sha1_hash compresses exactly one
\* padding block when len mod 64 is in 0..55 and exactly two when it is in
\* 56..63.
C2_PaddingBlockCount ==
  \A p \in Procs :
    /\ pc[p] = "done" =>
         Len(PadCalls(p)) = IF SzLow(len0[p], BLOCK_SIZE) <= 55 THEN 1 ELSE 2
    /\ pc[p] \in {"len", "lenloop"} =>
         Len(PadCalls(p)) = IF SzLow(len0[p], BLOCK_SIZE) <= 55 THEN 0 ELSE 1
    /\ pc[p] \in {"loop", "mark", "test", "spill"} => Len(PadCalls(p)) = 0
W_C2 == /\ pc[1] = "done"
        /\ len0[1] = SzNat(BLOCK_SIZE + 56)
        /\ Len(PadCalls(1)) = 2
        /\ Len(MsgCalls(1)) = 1

\* C9 as stated: the blocks passed to sha1_compress are ceil(len/64) whole
\* blocks of the message followed by zero or one blocks from the padding step.
C9_Original ==
  \A p \in Procs :
    pc[p] = "done" =>
      /\ Len(MsgCalls(p)) = (SzVal(len0[p]) + BLOCK_SIZE - 1) \div BLOCK_SIZE
      /\ Len(PadCalls(p)) \in {0, 1}
      /\ calls[p] = MsgCalls(p) \o PadCalls(p)
\* C9 amended: the blocks passed to sha1_compress are floor(len/64) whole
\* blocks of the message, in order, followed by one or two blocks from the
\* padding step, which makes ceil(len/64) or ceil(len/64) + 1 blocks in all.
C9_BlockSequence ==
  \A p \in Procs :
    pc[p] = "done" =>
      LET q == SzVal(len0[p]) \div BLOCK_SIZE
          c == (SzVal(len0[p]) + BLOCK_SIZE - 1) \div BLOCK_SIZE
          n == Len(calls[p])
      IN /\ n - q \in {1, 2}
         /\ n \in {c, c + 1}
         /\ \A k \in 1..n :
              IF k <= q
              THEN calls[p][k].src = "msg" /\ calls[p][k].blk = WholeBlock(message[p], k - 1)
              ELSE calls[p][k].src = "pad"
W_C9 == /\ pc[1] = "done"
        /\ len0[1] = SzNat(2 * BLOCK_SIZE + 1)
        /\ Len(calls[1]) = 3
        /\ calls[1][3].src = "pad"

\* C10: off is a multiple of 64 with off <= len (so len - off does not wrap
\* and off += 64 does not overflow), every index read from message is below
\* len, the tail copy moves at most 63 bytes, and every index written in the
\* padding buffer lies in 0..63.
C10_MemorySafety ==
  \A p \in Procs :
    /\ ~fault[p]
    /\ pc[p] \notin {"off", "init"} =>
         /\ SzLow(off[p], BLOCK_SIZE) = 0
         /\ SzGe(len0[p], off[p])
         /\ SzGe(SzAdd(off[p], SzNat(BLOCK_SIZE)), off[p])
    /\ pc[p] = "mark" =>
         /\ rem[p] = SzSub(len0[p], off[p])
         /\ SzGe(SzNat(BLOCK_SIZE - 1), rem[p])
    /\ pc[p] \in {"test", "spill", "clear", "len", "lenloop", "done"} =>
         SzGe(SzNat(BLOCK_SIZE), rem[p])
    /\ pc[p] = "lenloop" =>
         /\ i[p] \in 1..LENGTH_SIZE
         /\ i[p] < LENGTH_SIZE => BLOCK_SIZE - 1 - i[p] \in 56..63
W_C10 == /\ pc[1] = "mark"
         /\ off[1] = SzNat(BLOCK_SIZE)
         /\ rem[1] = SzNat(BLOCK_SIZE - 1)
         /\ ~fault[1]

\* The driver's state of invocation p.
Phase(p) ==
  IF pc[p] \in {"init", "loop"} THEN "ReadingBlocks"
  ELSE IF pc[p] \in {"mark", "test", "spill", "clear", "len", "lenloop"} THEN "Padding"
  ELSE IF pc[p] = "done" THEN "Done"
  ELSE "NotCalled"
\* The calls made so far are the first whole blocks of the message, in
\* increasing order and once each, followed by padding blocks only.
CallsInOrder(p) ==
  LET q == SzVal(len0[p]) \div BLOCK_SIZE
  IN \A k \in 1..Len(calls[p]) :
       IF k <= q
       THEN /\ calls[p][k].src = "msg"
            /\ calls[p][k].at = SzNat(BLOCK_SIZE * (k - 1))
            /\ calls[p][k].blk = WholeBlock(message[p], k - 1)
       ELSE calls[p][k].src = "pad"
C5_Always ==
  \A p \in Procs :
    LET q == SzVal(len0[p]) \div BLOCK_SIZE
    IN /\ CallsInOrder(p)
       /\ pc[p] = "loop" => SzNat(BLOCK_SIZE * Len(calls[p])) = off[p]
       /\ pc[p] = "init" => calls[p] = <<>>
       /\ Phase(p) = "Padding" => Len(calls[p]) \in {q, q + 1}
       /\ Phase(p) = "Done" => Len(calls[p]) \in {q + 1, q + 2}
C5_Step ==
  \A p \in Procs :
    /\ Phase(p)' # Phase(p) =>
         \/ Phase(p) = "NotCalled" /\ Phase(p)' = "ReadingBlocks"
         \/ /\ Phase(p) = "ReadingBlocks" /\ Phase(p)' = "Padding"
            /\ ~SzGe(SzSub(len0[p], off[p]), SzNat(BLOCK_SIZE))
            /\ Len(calls[p]) = SzVal(len0[p]) \div BLOCK_SIZE
         \/ Phase(p) = "Padding" /\ Phase(p)' = "Done"
         \/ Phase(p) = "Done" /\ Phase(p)' = "NotCalled"
    /\ (Phase(p) = "Done" /\ Phase(p)' = "Done") =>
         calls'[p] = calls[p] /\ hash'[HashOf(p)] = hash[HashOf(p)]
\* C5: sha1_hash goes through ReadingBlocks -> Padding -> Done and
\* terminates; in ReadingBlocks it compresses the chunks message[64k..64k+63]
\* for k = 0 .. floor(len/64)-1 in increasing k, once each and before any
\* padding block; it leaves ReadingBlocks only with fewer than 64 bytes
\* unconsumed; the padding then compresses 1 or 2 blocks, after which no
\* sha1_compress call happens.
C5_DriverPhases ==
  /\ []C5_Always
  /\ [][C5_Step]_vars
  /\ \A p \in Procs : (pc[p] = "init") ~> (pc[p] = "done")
W_C5 == /\ pc[1] = "done"
        /\ len0[1] = SzNat(2 * BLOCK_SIZE + 1)
        /\ Len(MsgCalls(1)) = 2
        /\ Len(PadCalls(1)) = 1

\* ----------------------------------------------------------------------
\* 8 * l as five limbs (the fifth is the part beyond 64 bits).
Mul8(l) ==
  LET m1 == l[1] * 8
      m2 == l[2] * 8 + (m1 \div H16)
      m3 == l[3] * 8 + (m2 \div H16)
      m4 == l[4] * 8 + (m3 \div H16)
  IN <<m1 % H16, m2 % H16, m3 % H16, m4 % H16, m4 \div H16>>
\* The big-endian 64-bit encoding of 8 * l, for l < 2^61.
BitLenBE(l) ==
  LET b == Mul8(l)
  IN <<b[4] \div 256, b[4] % 256, b[3] \div 256, b[3] % 256,
       b[2] \div 256, b[2] % 256, b[1] \div 256, b[1] % 256>>
Below2p61(l) == Mul8(l)[5] = 0
\* Bytes 56..63 of a block.
LengthField(blk) == [j \in 1..LENGTH_SIZE |-> blk[BLOCK_SIZE - LENGTH_SIZE + j]]
LastCall(p) == calls[p][Len(calls[p])]

\* C3: for every len in 0..2^61-1 the last 8 bytes of the last block passed
\* to sha1_compress are the big-endian 64-bit encoding of the bit length
\* 8 * len.
C3_LengthField ==
  \A p \in Procs :
    (pc[p] = "done" /\ Below2p61(len0[p])) =>
       /\ LastCall(p).src = "pad"
       /\ LengthField(LastCall(p).blk) = BitLenBE(len0[p])
W_C3 == /\ pc[1] = "done"
        /\ len0[1] = <<65535, 65535, 65535, 8191>>
        /\ LengthField(LastCall(1).blk) = <<255, 255, 255, 255, 255, 255, 255, 248>>

\* What C4 says of the offsets it names, for tail length r: the first
\* padding block holds the tail, 0x80 and zeros up to the length field (one
\* block) or up to its end (two blocks); the second one is zero at 0..55.
PaddingLayout(p) ==
  LET r == SzLow(len0[p], BLOCK_SIZE)
      pads == PadCalls(p)
      first == pads[1].blk
      zeroEnd == IF Len(pads) = 1 THEN BLOCK_SIZE - LENGTH_SIZE ELSE BLOCK_SIZE
  IN /\ Len(pads) \in {1, 2}
     /\ \A j \in 0..(r - 1) :
          first[j + 1] = MsgByte(message[p], SzAdd(SzSub(len0[p], SzNat(r)), SzNat(j)))
     /\ first[r + 1] = 128
     /\ \A j \in (r + 1)..(zeroEnd - 1) : first[j + 1] = 0
     /\ Len(pads) = 2 =>
          \A j \in 0..(BLOCK_SIZE - LENGTH_SIZE - 1) : pads[2].blk[j + 1] = 0
\* C4 as stated: the layout above, and in the two-block case the second
\* padding block carries no 0x80 byte.
C4_Original ==
  \A p \in Procs :
    pc[p] = "done" =>
      /\ PaddingLayout(p)
      /\ Len(PadCalls(p)) = 2 =>
           \A j \in 1..BLOCK_SIZE : PadCalls(p)[2].blk[j] # 128
\* C4 amended: the layout above, and in the two-block case the second
\* padding block carries no 0x80 byte at the offsets 0..55 before its length
\* field (a byte of the length field can be 0x80, as for len = 2^20 + 56).
C4_PaddingLayout ==
  \A p \in Procs :
    pc[p] = "done" =>
      /\ PaddingLayout(p)
      /\ Len(PadCalls(p)) = 2 =>
           \A j \in 1..(BLOCK_SIZE - LENGTH_SIZE) : PadCalls(p)[2].blk[j] # 128
W_C4 == /\ pc[1] = "done"
        /\ len0[1] = <<56, 16, 0, 0>>
        /\ Len(PadCalls(1)) = 2
        /\ PadCalls(1)[1].blk[57] = 128
        /\ PadCalls(1)[2].blk[62] = 128

\* ----------------------------------------------------------------------
\* The sequence of blocks invocation p has passed to sha1_compress.
BlocksOf(p) == [k \in 1..Len(calls[p]) |-> calls[p][k].blk]
BothDone == pc[1] = "done" /\ pc[2] = "done" /\ message[1] = message[2]

C6_Returned == BothDone /\ len0[1] = len0[2] => hash[HashOf(1)] = hash[HashOf(2)]
C6_Start == \A p \in Procs : (pc[p] = "loop" /\ calls[p] = <<>>) => hash[HashOf(p)] = H0
C6_Step ==
  \A p \in Procs :
    (pc[p] \notin {"off", "init"} /\ hash'[HashOf(p)] # hash[HashOf(p)]) =>
       Len(calls'[p]) = Len(calls[p]) + 1
\* C6: two runs of sha1_hash on the same (message, len) return equal
\* hash[0..4] whatever the output arrays held before: the state is the five
\* constants before the first sha1_compress call and is changed only by
\* sha1_compress afterwards.
C6_SameDigest == []C6_Returned /\ []C6_Start /\ [][C6_Step]_vars
W_C6 == /\ BothDone
        /\ len0[1] = SzNat(BLOCK_SIZE + 56)
        /\ len0[2] = len0[1]
        /\ hash[HashOf(1)] = hash[HashOf(2)]

\* C8: for one buffer and two different lengths the digests differ, and so
\* do the sequences of blocks passed to sha1_compress, their encoded
\* bit-length fields being different.
C8_LengthChangesDigest ==
  (BothDone /\ len0[1] # len0[2]) =>
     /\ hash[HashOf(1)] # hash[HashOf(2)]
     /\ BlocksOf(1) # BlocksOf(2)
     /\ LengthField(LastCall(1).blk) # LengthField(LastCall(2).blk)
W_C8 == /\ BothDone
        /\ len0[1] = SzNat(BLOCK_SIZE)
        /\ len0[2] = SzNat(0)
        /\ hash[HashOf(1)] # hash[HashOf(2)]

\* ----------------------------------------------------------------------
\* The digest of the first l bytes of message m by the textbook definition:
\* the message, a 0x80 byte, zeros up to 8 bytes short of a multiple of 64
\* bytes, the bit length as a big-endian 64-bit number; compressed block by
\* block from H0.
PaddedLen(l) == ((l + LENGTH_SIZE) \div BLOCK_SIZE + 1) * BLOCK_SIZE
PaddedByte(m, l, j) ==
  IF j < l THEN MsgByte(m, SzNat(j))
  ELSE IF j = l THEN 128
  ELSE IF j < PaddedLen(l) - LENGTH_SIZE THEN 0
  ELSE BitLenBE(SzNat(l))[j - (PaddedLen(l) - LENGTH_SIZE) + 1]
RECURSIVE RefFold(_, _, _, _)
RefFold(st, m, l, k) ==
  IF BLOCK_SIZE * k = PaddedLen(l) THEN st
  ELSE CHOOSE r \in {RefFold(t, m, l, k + 1) :
         t \in {sha1_compress(st, [j \in 1..BLOCK_SIZE |->
                                     PaddedByte(m, l, BLOCK_SIZE * k + j - 1)])}} : TRUE
RefDigest(m, l) == RefFold(H0, m, l, 0)

C7_Alone == \A p \in Procs : pc[p] = "done" =>
               hash[HashOf(p)] = RefDigest(message[p], SzVal(len0[p]))
\* A step that is not a step of invocation p leaves p's output array, padding
\* buffer and message alone.
C7_Step ==
  \A p \in Procs :
    (pc'[p] = pc[p] /\ hidx'[p] = hidx[p] /\ off'[p] = off[p] /\ i'[p] = i[p]) =>
       /\ hash'[HashOf(p)] = hash[HashOf(p)]
       /\ block'[BlockOf(p)] = block[BlockOf(p)]
       /\ message'[p] = message[p]
       /\ calls'[p] = calls[p]
\* C7: two invocations with distinct output arrays and messages, interleaved
\* step by step, each produce the digest they produce alone, and neither
\* writes to the other's output array, padding buffer or message.
C7_ParallelSafety == []C7_Alone /\ [][C7_Step]_vars
W_C7 == /\ pc[1] = "done" /\ pc[2] = "done"
        /\ message[1] # message[2]
        /\ len0[1] = SzNat(BLOCK_SIZE + 1)
        /\ len0[2] = SzNat(56)
        /\ hash[HashOf(1)] # hash[HashOf(2)]
====
